---------------------------- MODULE Spec2Model ----------------------------
(***************************************************************************)
(* Model of cransubs-server: the /snap handler (src/src/main.rs), a TTL    *)
(* cache in front of Snapshot::capture (src/src/snapshot.rs), which walks  *)
(* the FTP tree below /incoming to depth 2 and turns package archives      *)
(* into Submissions.                                                       *)
(*                                                                         *)
(* Units.  Wall-clock instants (SystemTime, Utc::now) are integers in      *)
(* milliseconds since UNIX_EPOCH.  File modify times are hours on a small  *)
(* civil timeline that holds one daylight-saving gap and one fold.         *)
(* Strings are tuples of one-character strings, so that slicing, joining   *)
(* and the regular expression work on characters as the code does.         *)
(***************************************************************************)
EXTENDS Integers, Sequences, FiniteSets, TLC

(***************************************************************************)
(* Bounds of the model.                                                    *)
(***************************************************************************)
\* number of concurrent callers of /snap
NProcs == 2
\* number of clock movements in one behaviour
MaxTicks == 2
\* number of requests for /snap in one behaviour
MaxAccesses == 2
\* wall-clock reading (ms since the epoch) when the process starts
BootTime == 700200

(***************************************************************************)
(* Program constants.                                                      *)
(***************************************************************************)
\* main.rs:14  static TIMEOUT_CACHE_SECONDS: u64 = 60*10
TIMEOUT_CACHE_SECONDS == 60 * 10
\* main.rs:93  last_update starts at UNIX_EPOCH
UNIX_EPOCH == 0
\* snapshot.rs:105  let max_depth: u32 = 2
max_depth == 2
\* snapshot.rs:14  static CRAN_ROOT = "/incoming"
CRAN_ROOT == <<"/", "i", "n", "c", "o", "m", "i", "n", "g">>

Procs == 1 .. NProcs
NoProc == 0

(***************************************************************************)
(* Strings.                                                                *)
(***************************************************************************)
\* &s[from..] of Rust, `from` a 0-based byte offset with from <= s.len()
SliceFrom(s, from) == SubSeq(s, from + 1, Len(s))

Min(a, b) == IF a <= b THEN a ELSE b

\* [&a, b].join("/")
JoinSlash(a, b) == a \o <<"/">> \o b

EndsWith(s, suf) ==
    /\ Len(s) >= Len(suf)
    /\ SubSeq(s, Len(s) - Len(suf) + 1, Len(s)) = suf

\* number of "/" separators of a path below the first one: "/incoming" is 0
PathDepth(path) == Cardinality({i \in 1 .. Len(path) : path[i] = "/"}) - 1

(***************************************************************************)
(* RE_PACKAGE_FILE = ^(.+)_(.+)\.tar\.gz$   (snapshot.rs:19)               *)
(* The name must end in ".tar.gz"; what precedes it (the stem) is split    *)
(* at an underscore with a non-empty text on both sides.  Both groups are  *)
(* greedy and the regex engine prefers the leftmost-longest group 1, so    *)
(* the split is at the last such underscore.                               *)
(***************************************************************************)
TarGz == <<".", "t", "a", "r", ".", "g", "z">>

ReStem(name) == SubSeq(name, 1, Len(name) - Len(TarGz))

\* the positions of the stem at which "_" can separate group 1 from group 2
ReSplits(name) ==
    IF EndsWith(name, TarGz)
    THEN {i \in 2 .. Len(ReStem(name)) - 1 : ReStem(name)[i] = "_"}
    ELSE {}

SetMax(S) == CHOOSE x \in S : \A y \in S : y <= x

NoCaps == [matched |-> FALSE, g1 |-> <<>>, g2 |-> <<>>]

\* the groups split at the first underscore that can separate them
ReCapturesFirstSplit(name) ==
    IF ReSplits(name) = {}
    THEN NoCaps
    ELSE LET i == CHOOSE x \in ReSplits(name) :
                      \A y \in ReSplits(name) : x <= y
         IN  [matched |-> TRUE,
              g1 |-> SubSeq(ReStem(name), 1, i - 1),
              g2 |-> SubSeq(ReStem(name), i + 1, Len(ReStem(name)))]

\* RE_PACKAGE_FILE.captures(name): None, or the two groups
ReCaptures(name) ==
    IF ReSplits(name) = {}
    THEN NoCaps
    ELSE LET i == SetMax(ReSplits(name))
         IN  [matched |-> TRUE,
              g1 |-> SubSeq(ReStem(name), 1, i - 1),
              g2 |-> SubSeq(ReStem(name), i + 1, Len(ReStem(name)))]

Unknown == <<"[", "u", "n", "k", "n", "o", "w", "n", "]">>

\* caps.get(i).map_or("[unknown]", |c| c.as_str()); a group of this
\* pattern that took part in the match is not empty
GroupOrUnknown(caps, i) ==
    LET g == IF i = 1 THEN caps.g1 ELSE caps.g2
    IN  IF g = <<>> THEN Unknown ELSE g

(***************************************************************************)
(* chrono_tz::Europe::Vienna on the small civil timeline.  Local hours     *)
(* before GapHour and after FoldHour are standard time (UTC+1), those in   *)
(* between are summer time (UTC+2).  GapHour does not exist as a local     *)
(* time, FoldHour exists twice.                                            *)
(***************************************************************************)
GapHour == 10
FoldHour == 20

\* tz.from_local_datetime(naive): chrono's LocalResult
FromLocalDatetime(h) ==
    IF h = GapHour THEN [kind |-> "None", utc |-> {}]
    ELSE IF h = FoldHour THEN [kind |-> "Ambiguous", utc |-> {h - 2, h - 1}]
    ELSE IF h > GapHour /\ h < FoldHour
         THEN [kind |-> "Single", utc |-> {h - 2}]
    ELSE [kind |-> "Single", utc |-> {h - 1}]

\* LocalResult::unwrap: panics unless the result is Single
LocalResultUnwrapPanics(h) == FromLocalDatetime(h).kind # "Single"

\* local_systemtime_fix_timezone(datetime, Vienna), when unwrap does not panic
LocalSystemtimeFixTimezone(h) == CHOOSE u \in FromLocalDatetime(h).utc : TRUE

(***************************************************************************)
(* suppaftp::list::File records and create_entry (snapshot.rs:70-88).      *)
(* kind "bad" is a listing line File::from_str cannot parse.               *)
(***************************************************************************)
\* every record that is not a directory taken for a regular file
IsFileOrSymlink(f) == f.kind # "dir"

is_file(f) == f.kind = "file"
\* a symlink taken for a directory
IsDirOrSymlink(f) == f.kind \in {"dir", "symlink"}

is_directory(f) == f.kind = "dir"
is_symlink(f) == f.kind = "symlink"

\* the slice taken from the length of the root, the separator kept
FolderOfKeepsSlash(folder) ==
    SliceFrom(folder, Min(Len(CRAN_ROOT), Len(folder)))

\* folder[(CRAN_ROOT.len() + 1).min(folder.len())..]
FolderOf(folder) == SliceFrom(folder, Min(Len(CRAN_ROOT) + 1, Len(folder)))

\* does create_entry return Some for this record
CreatesEntry(f) == is_file(f) /\ ReCaptures(f.name).matched

\* create_entry panics (through unwrap) on a matching file with a modify
\* time that is not a unique local time
CreateEntryPanics(f) == CreatesEntry(f) /\ LocalResultUnwrapPanics(f.modified)

\* the Submission of create_entry when it returns Some
CreateEntry(f, folder, request_time) ==
    [request_time |-> request_time,
     folder       |-> FolderOf(folder),
     file_time    |-> LocalSystemtimeFixTimezone(f.modified),
     file_bytes   |-> f.size,
     pkg_name     |-> GroupOrUnknown(ReCaptures(f.name), 1),
     pkg_version  |-> GroupOrUnknown(ReCaptures(f.name), 2)]

(***************************************************************************)
(* The remote side: what ftp_stream.list answers.  A capture sees one of   *)
(* the trees below.  Every record has its own size, which identifies it.   *)
(***************************************************************************)
File(name, kind, size, modified) ==
    [name |-> name, kind |-> kind, size |-> size, modified |-> modified]

NameA1 == <<"a", "_", "1">> \o TarGz
NameAB2 == <<"a", "_", "b", "_", "2">> \o TarGz
NameP1 == <<"p", "_", "1">> \o TarGz
NameNoVersion == <<"a", "_">> \o TarGz
NameNoName == <<"_", "1">> \o TarGz
NameRead == <<"r", "e", "a", "d">>
NameD == <<"d">>
NameE == <<"e">>
NameF == <<"f">>
NameL == <<"l">>

PathD == JoinSlash(CRAN_ROOT, NameD)
PathDE == JoinSlash(PathD, NameE)
PathDEF == JoinSlash(PathDE, NameF)
PathL == JoinSlash(CRAN_ROOT, NameL)

\* directories four levels deep, a symlink to a directory, a directory and
\* a symlink named like a package, files that do not match
TreePlain ==
    (CRAN_ROOT :> << File(NameRead, "file", 1, 5),
                     File(NameL, "symlink", 2, 5),
                     File(NameA1, "file", 3, 5),
                     File(NameD, "dir", 4, 5),
                     File(NameP1, "dir", 5, 5) >>)
    @@ (PathD :> << File(NameNoVersion, "file", 6, GapHour),
                    File(NameAB2, "file", 7, 15),
                    File(NameE, "dir", 8, 5) >>)
    @@ (PathDE :> << File(NameF, "dir", 9, 5),
                     File(NameP1, "symlink", 10, 5),
                     File(NameNoName, "file", 11, FoldHour),
                     File(NameA1, "file", 12, 25) >>)
    @@ (PathDEF :> << File(NameA1, "file", 13, 5) >>)
    @@ (PathL :> << File(NameA1, "file", 14, 5) >>)

\* a line that File::from_str rejects, after a package was collected
TreeBad ==
    (CRAN_ROOT :> << File(NameA1, "file", 20, 5),
                     File(<<"?">>, "bad", 21, 5),
                     File(NameAB2, "file", 22, 5) >>)

\* a package whose modify time falls in the daylight-saving gap
TreeGap ==
    (CRAN_ROOT :> << File(NameA1, "file", 30, 5),
                     File(NameAB2, "file", 31, GapHour) >>)

\* a package whose modify time falls in the daylight-saving fold
TreeFold ==
    (CRAN_ROOT :> << File(NameAB2, "file", 40, FoldHour),
                     File(NameA1, "file", 41, 5) >>)

\* one package in the root
TreeFlat ==
    (CRAN_ROOT :> << File(NameA1, "file", 50, 5) >>)

\* names with underscores at the ends and in a row, with a second
\* ".tar.gz", with another ending
NameTrailing == <<"a", "_", "1", "_">> \o TarGz
NameDouble == <<"a", "_", "_", "1">> \o TarGz
NameLeading == <<"_", "a", "_", "1">> \o TarGz
NameUnderscores == <<"_", "_", "_">> \o TarGz
NameTwoUnderscores == <<"_", "_">> \o TarGz
NameTwice == <<"a", "_", "1">> \o TarGz \o TarGz
NameZip == <<"a", "_", "1", ".", "z", "i", "p">>

TreeNames ==
    (CRAN_ROOT :> << File(NameTrailing, "file", 60, 5),
                     File(NameDouble, "file", 61, 5),
                     File(NameLeading, "file", 62, 5),
                     File(NameUnderscores, "file", 63, 5),
                     File(NameTwoUnderscores, "file", 64, 5),
                     File(NameTwice, "file", 65, 5),
                     File(NameZip, "file", 66, 5) >>)

TreeIds == {"plain", "bad", "gap", "fold", "flat", "names"}

Tree(id) ==
    CASE id = "plain" -> TreePlain
      [] id = "flat" -> TreeFlat
      [] id = "bad" -> TreeBad
      [] id = "gap" -> TreeGap
      [] id = "names" -> TreeNames
      [] OTHER -> TreeFold

\* ftp_stream.list(Some(&path)) when it succeeds
Listing(id, path) ==
    IF path \in DOMAIN Tree(id) THEN Tree(id)[path] ELSE <<>>

(***************************************************************************)
(* Time.                                                                   *)
(***************************************************************************)
TtlMillis == TIMEOUT_CACHE_SECONDS * 1000

\* Duration::as_secs: whole seconds of a non-negative duration in ms
AsSecs(ms) == ms \div 1000

\* DateTime::round_subsecs(0): to the nearest second, a half rounds up
RoundSubsecs(t) == ((t + 500) \div 1000) * 1000

\* how the wall clock may move between two steps: set back by a second,
\* forward by half a TTL, forward by a TTL and half a second
Deltas == {0 - 1000, TtlMillis \div 2, TtlMillis + 500}

(***************************************************************************)
(* State.                                                                  *)
(***************************************************************************)
VARIABLES
    clock,        \* the wall clock: SystemTime::now() and Utc::now()
    ticks,        \* how often the clock has moved
    accesses,     \* how many requests have arrived
    last_update,  \* Cache.last_update, inside the Mutex
    mutex,        \* the holder of Cache.last_update's Mutex, or NoProc
    data,         \* Cache.data, the SnapshotContainer inside the RwLock
    writer,       \* the holder of the RwLock's write guard, or NoProc
    readers,      \* the holders of read guards of the RwLock
    pc,           \* where each caller of snap is
    tree,         \* the remote tree the caller's capture talks to
    started,      \* capture_snapshot's local capture_time (not rounded)
    snap,         \* capture_snapshot's local snap
    folder_stack, \* capture_snapshot's local folder_stack
    ret,          \* what the caller's last access returned
    outcome,      \* history: the path the caller's access took
    visited,      \* history: the paths the caller's capture has listed
    myAttempt,    \* history: the number of the capture the caller made
    waitedFor,    \* history: the capture in flight when the caller arrived
    seen,         \* history: the last capture stored when the caller arrived
    hist          \* history: every capture, its access time and result

vars == <<clock, ticks, accesses, last_update, mutex, data, writer, readers, pc,
          tree, started, snap, folder_stack, ret, outcome, visited,
          myAttempt, waitedFor, seen, hist>>

shared == <<last_update, mutex, data, writer, readers>>
locals == <<tree, started, snap, folder_stack>>

NoTree == "none"

\* Snapshot::new()  (snapshot.rs:43-49)
SnapshotNew(t) ==
    [capture_time |-> t, capture_duration |-> 0, submissions |-> <<>>]

\* the Snapshot of capture_snapshot before the walk (snapshot.rs:97-101)
SnapshotStart(t) ==
    [capture_time |-> RoundSubsecs(t), capture_duration |-> 0,
     submissions |-> <<>>]

NoBody == [update_interval |-> 0, snapshot |-> SnapshotNew(0)]

\* the caller has no response yet
NoRet == [status |-> "none", body |-> NoBody]
\* the response of a handler that panicked: no Snapshot
Panicked == [status |-> "panicked", body |-> NoBody]
\* the response built from the container of the start of the process
JsonOfInitial(container) ==
    [status |-> "ok",
     body |-> [container EXCEPT !.snapshot = SnapshotNew(BootTime)]]

\* json::Json(container)
Json(container) == [status |-> "ok", body |-> container]

\* the calls of Snapshot::capture that are running
CapturePcs == {"connect", "login", "walk"}

Init ==
    /\ clock = BootTime
    /\ ticks = 0
    /\ accesses = 0
    /\ last_update = UNIX_EPOCH
    /\ mutex = NoProc
    /\ data = [update_interval |-> TIMEOUT_CACHE_SECONDS,
               snapshot |-> SnapshotNew(BootTime)]
    /\ writer = NoProc
    /\ readers = {}
    /\ pc = [p \in Procs |-> "idle"]
    /\ tree = [p \in Procs |-> NoTree]
    /\ started = [p \in Procs |-> 0]
    /\ snap = [p \in Procs |-> SnapshotNew(0)]
    /\ folder_stack = [p \in Procs |-> <<>>]
    /\ ret = [p \in Procs |-> NoRet]
    /\ outcome = [p \in Procs |-> "none"]
    /\ visited = [p \in Procs |-> {}]
    /\ myAttempt = [p \in Procs |-> 0]
    /\ waitedFor = [p \in Procs |-> 0]
    /\ seen = [p \in Procs |-> 0]
    /\ hist = <<>>

(***************************************************************************)
(* capture_snapshot's loop body (snapshot.rs:112-124): the entries of one  *)
(* listed directory, in listing order.                                     *)
(***************************************************************************)
\* the comparison with <= in place of <
PushesSubdirAtMax(depth) == depth <= max_depth

\* if depth < max_depth
PushesSubdir(depth) == depth < max_depth

StackEntry(depth, path) == [depth |-> depth, path |-> path]

RECURSIVE WalkEntries(_, _, _, _, _, _, _)
WalkEntries(entries, i, depth, path, request_time, stack, subs) ==
    IF i > Len(entries)
    THEN [status |-> "ok", stack |-> stack, subs |-> subs]
    ELSE LET f == entries[i]
         IN  IF f.kind = "bad"
             THEN [status |-> "err", stack |-> stack, subs |-> subs]
             ELSE IF is_directory(f)
             THEN WalkEntries(entries, i + 1, depth, path, request_time,
                      IF PushesSubdir(depth)
                      THEN Append(stack,
                               StackEntry(depth + 1, JoinSlash(path, f.name)))
                      ELSE stack,
                      subs)
             ELSE IF is_file(f)
             THEN IF CreateEntryPanics(f)
                  THEN [status |-> "panic", stack |-> stack, subs |-> subs]
                  ELSE WalkEntries(entries, i + 1, depth, path, request_time,
                           stack,
                           IF CreatesEntry(f)
                           THEN Append(subs, CreateEntry(f, path, request_time))
                           ELSE subs)
             ELSE WalkEntries(entries, i + 1, depth, path, request_time,
                      stack, subs)

\* a pop that leaves the element on the work list
StackNotPopped(stack) == stack

\* folder_stack.pop() takes the last element
StackTop(stack) == stack[Len(stack)]
StackRest(stack) == SubSeq(stack, 1, Len(stack) - 1)

\* one iteration of the while loop for caller p whose listing succeeded
WalkStep(p) ==
    LET top == StackTop(folder_stack[p])
    IN  WalkEntries(Listing(tree[p], top.path), 1, top.depth, top.path,
                    RoundSubsecs(clock), StackRest(folder_stack[p]),
                    snap[p].submissions)

(***************************************************************************)
(* snap (main.rs:53-79), its locks and its decision.                       *)
(***************************************************************************)
\* a lock that never makes a caller wait
MutexNeverWaits == TRUE

\* cache.last_update.lock().await returns
MutexAvailable == mutex = NoProc

\* now.duration_since(*last_update) is Err: expect panics
WentBackwards(t, lu) == t < lu

\* the comparison with >= in place of >
IsStaleAtTtl(t, lu) == AsSecs(t - lu) >= TIMEOUT_CACHE_SECONDS

\* the comparison with the TTL taken for milliseconds
IsStaleWrongUnit(t, lu) == AsSecs(t - lu) > TIMEOUT_CACHE_SECONDS * 1000

\* now.duration_since(*last_update)...as_secs() > TIMEOUT_CACHE_SECONDS
IsStale(t, lu) == AsSecs(t - lu) > TIMEOUT_CACHE_SECONDS

\* last_update left as it was
LastUpdateNotSet(t, lu) == lu

\* *last_update = now
LastUpdateOnStale(t, lu) == t

\* cache.data.write().await returns
WriteAvailable == writer = NoProc /\ readers = {}

\* cache.data.read().await returns
ReadAvailable == writer = NoProc

\* the result of the capture dropped
StoreOkDropped(old, s) == old

\* the whole container built anew, the interval left at its default
StoreOkNewContainer(old, s) == [update_interval |-> 0, snapshot |-> s]

\* Ok(snap) => x.snapshot = snap
StoreOk(old, s) == [old EXCEPT !.snapshot = s]

\* a failed capture that publishes what it had collected
StoreErrPublishes(old, s) == [old EXCEPT !.snapshot = s]

\* Err(err) => println!(...)
StoreErr(old, s) == old

ResetLocals(p) ==
    /\ tree' = [tree EXCEPT ![p] = NoTree]
    /\ started' = [started EXCEPT ![p] = 0]
    /\ snap' = [snap EXCEPT ![p] = SnapshotNew(0)]
    /\ folder_stack' = [folder_stack EXCEPT ![p] = <<>>]

\* the capture of caller p ends: how, and with which Snapshot in hand
SetResult(p, kind, s) ==
    hist' = [hist EXCEPT ![myAttempt[p]].kind = kind,
                         ![myAttempt[p]].snapshot = s]

\* the Err arm leaving with both guards still held
CaptureErrKeepsGuards(p, partial) ==
    /\ data' = data
    /\ pc' = [pc EXCEPT ![p] = "rlock"]
    /\ outcome' = [outcome EXCEPT ![p] = "err"]
    /\ hist' = [hist EXCEPT ![myAttempt[p]].kind = "err",
                            ![myAttempt[p]].snapshot = partial]
    /\ tree' = [tree EXCEPT ![p] = "none"]
    /\ UNCHANGED <<clock, ticks, accesses, last_update, mutex, writer,
                   readers, started, snap, folder_stack, ret, myAttempt,
                   waitedFor, seen>>

\* Snapshot::capture() returned Err: the match arm, then both guards drop
\* (partial is the Snapshot the capture had built when it gave up)
CaptureErr(p, partial) ==
    /\ data' = StoreErr(data, partial)
    /\ writer' = NoProc
    /\ mutex' = NoProc
    /\ pc' = [pc EXCEPT ![p] = "rlock"]
    /\ outcome' = [outcome EXCEPT ![p] = "err"]
    /\ SetResult(p, "err", partial)
    /\ ResetLocals(p)
    /\ UNCHANGED <<clock, ticks, accesses, last_update, readers, ret,
                   myAttempt, waitedFor, seen>>

\* Snapshot::capture() panicked: unwinding drops both guards, the handler
\* produces no Snapshot
CapturePanic(p, partial) ==
    /\ writer' = NoProc
    /\ mutex' = NoProc
    /\ pc' = [pc EXCEPT ![p] = "idle"]
    /\ outcome' = [outcome EXCEPT ![p] = "panic"]
    /\ ret' = [ret EXCEPT ![p] = Panicked]
    /\ SetResult(p, "panic", partial)
    /\ ResetLocals(p)
    /\ UNCHANGED <<clock, ticks, accesses, last_update, data, readers,
                   myAttempt, waitedFor, seen>>

\* the number of the last capture whose result has been stored, or 0
LastStored ==
    SetMax({0} \cup {k \in DOMAIN hist : hist[k].kind = "ok"})

\* a request for /snap arrives
Arrive(p) ==
    /\ pc[p] = "idle"
    /\ pc' = [pc EXCEPT ![p] = "lock"]
    /\ ret' = [ret EXCEPT ![p] = NoRet]
    /\ outcome' = [outcome EXCEPT ![p] = "none"]
    /\ visited' = [visited EXCEPT ![p] = {}]
    /\ myAttempt' = [myAttempt EXCEPT ![p] = 0]
    /\ waitedFor' = [waitedFor EXCEPT ![p] =
           IF \E q \in Procs : pc[q] \in CapturePcs THEN Len(hist) ELSE 0]
    /\ seen' = [seen EXCEPT ![p] = LastStored]
    /\ accesses < MaxAccesses
    /\ accesses' = accesses + 1
    /\ UNCHANGED <<clock, ticks, shared, locals, hist>>

\* lines 56-62: the clock reads earlier than last_update
DecidePanic(p) ==
    /\ pc[p] = "lock"
    /\ MutexAvailable
    /\ WentBackwards(clock, last_update)
    /\ pc' = [pc EXCEPT ![p] = "idle"]
    /\ ret' = [ret EXCEPT ![p] = Panicked]
    /\ outcome' = [outcome EXCEPT ![p] = "panic"]
    /\ UNCHANGED <<clock, ticks, accesses, shared, locals, visited, myAttempt,
                   waitedFor, seen, hist>>

\* lines 56-64, 73-76: use the cache, the mutex guard drops
DecideFresh(p) ==
    /\ pc[p] = "lock"
    /\ MutexAvailable
    /\ ~WentBackwards(clock, last_update)
    /\ ~IsStale(clock, last_update)
    /\ pc' = [pc EXCEPT ![p] = "rlock"]
    /\ outcome' = [outcome EXCEPT ![p] = "fresh"]
    /\ UNCHANGED <<clock, ticks, accesses, shared, locals, ret, visited,
                   myAttempt, waitedFor, seen, hist>>

\* lines 56-67: update the cache, the mutex stays held; the capture this
\* access attempts gets its number
DecideStale(p) ==
    /\ pc[p] = "lock"
    /\ MutexAvailable
    /\ ~WentBackwards(clock, last_update)
    /\ IsStale(clock, last_update)
    /\ mutex' = p
    /\ last_update' = LastUpdateOnStale(clock, last_update)
    /\ pc' = [pc EXCEPT ![p] = "wlock"]
    /\ hist' = Append(hist, [at |-> clock, kind |-> "pending",
                              snapshot |-> SnapshotNew(0)])
    /\ myAttempt' = [myAttempt EXCEPT ![p] = Len(hist) + 1]
    /\ UNCHANGED <<clock, ticks, accesses, data, writer, readers, locals, tree,
                   ret, outcome, visited, waitedFor, seen>>

\* main.rs:68-69  the write guard is taken and Snapshot::capture is called
WLock(p) ==
    /\ pc[p] = "wlock"
    /\ WriteAvailable
    /\ writer' = p
    /\ pc' = [pc EXCEPT ![p] = "connect"]
    /\ UNCHANGED <<clock, ticks, accesses, last_update, mutex, data, readers,
                   locals, ret, outcome, visited, myAttempt, waitedFor, seen,
                   hist>>

\* snapshot.rs:92  FtpStream::connect succeeds; the remote tree is any
ConnectOk(p, ids) ==
    /\ pc[p] = "connect"
    /\ \E id \in ids : tree' = [tree EXCEPT ![p] = id]
    /\ pc' = [pc EXCEPT ![p] = "login"]
    /\ UNCHANGED <<clock, ticks, accesses, shared, started, snap, folder_stack,
                   ret, outcome, visited, myAttempt, waitedFor, seen, hist>>

\* snapshot.rs:92  FtpStream::connect fails
ConnectErr(p) ==
    /\ pc[p] = "connect"
    /\ CaptureErr(p, snap[p])
    /\ UNCHANGED visited

\* snapshot.rs:93-106  login succeeds, the walk starts at the root
LoginOk(p) ==
    /\ pc[p] = "login"
    /\ started' = [started EXCEPT ![p] = clock]
    /\ snap' = [snap EXCEPT ![p] = SnapshotStart(clock)]
    /\ folder_stack' = [folder_stack EXCEPT ![p] =
                            <<StackEntry(0, CRAN_ROOT)>>]
    /\ pc' = [pc EXCEPT ![p] = "walk"]
    /\ UNCHANGED <<clock, ticks, accesses, shared, tree, ret, outcome, visited,
                   myAttempt, waitedFor, seen, hist>>

\* snapshot.rs:93  login fails
LoginErr(p) ==
    /\ pc[p] = "login"
    /\ CaptureErr(p, snap[p])
    /\ UNCHANGED visited

Visit(p) ==
    visited' = [visited EXCEPT ![p] = @ \cup {StackTop(folder_stack[p]).path}]

\* snapshot.rs:108-112  a directory is popped and ftp_stream.list fails
ListErr(p) ==
    /\ pc[p] = "walk"
    /\ folder_stack[p] # <<>>
    /\ Visit(p)
    /\ CaptureErr(p, snap[p])

\* snapshot.rs:108-125  a directory is popped, listed and gone through
WalkDir(p) ==
    /\ pc[p] = "walk"
    /\ folder_stack[p] # <<>>
    /\ WalkStep(p).status = "ok"
    /\ Visit(p)
    /\ folder_stack' = [folder_stack EXCEPT ![p] = WalkStep(p).stack]
    /\ snap' = [snap EXCEPT ![p].submissions = WalkStep(p).subs]
    /\ UNCHANGED <<clock, ticks, accesses, shared, pc, tree, started, ret,
                   outcome, myAttempt, waitedFor, seen, hist>>

\* snapshot.rs:113  File::from_str fails on a line of the listing
WalkParseErr(p) ==
    /\ pc[p] = "walk"
    /\ folder_stack[p] # <<>>
    /\ WalkStep(p).status = "err"
    /\ Visit(p)
    /\ CaptureErr(p, [snap[p] EXCEPT !.submissions = WalkStep(p).subs])

\* snapshot.rs:66  unwrap panics inside create_entry
WalkPanic(p) ==
    /\ pc[p] = "walk"
    /\ folder_stack[p] # <<>>
    /\ WalkStep(p).status = "panic"
    /\ Visit(p)
    /\ CapturePanic(p, [snap[p] EXCEPT !.submissions = WalkStep(p).subs])

\* the Snapshot capture_snapshot returns (snapshot.rs:127-131)
FinalSnapshot(p) ==
    [snap[p] EXCEPT !.capture_duration = clock - started[p]]

\* snapshot.rs:127-131 and main.rs:70: Ok(snap) is stored, both guards drop
Finish(p) ==
    /\ pc[p] = "walk"
    /\ folder_stack[p] = <<>>
    /\ data' = StoreOk(data, FinalSnapshot(p))
    /\ writer' = NoProc
    /\ mutex' = NoProc
    /\ pc' = [pc EXCEPT ![p] = "rlock"]
    /\ outcome' = [outcome EXCEPT ![p] = "ok"]
    /\ SetResult(p, "ok", FinalSnapshot(p))
    /\ ResetLocals(p)
    /\ UNCHANGED <<clock, ticks, accesses, last_update, readers, ret, visited,
                   myAttempt, waitedFor, seen>>

\* main.rs:78  cache.data.read().await returns
RLock(p) ==
    /\ pc[p] = "rlock"
    /\ ReadAvailable
    /\ readers' = readers \cup {p}
    /\ pc' = [pc EXCEPT ![p] = "clone"]
    /\ UNCHANGED <<clock, ticks, accesses, last_update, mutex, data, writer,
                   locals, ret, outcome, visited, myAttempt, waitedFor, seen,
                   hist>>

\* main.rs:78  .clone() under the read guard, which then drops
Clone(p) ==
    /\ pc[p] = "clone"
    /\ ret' = [ret EXCEPT ![p] = Json(data)]
    /\ readers' = readers \ {p}
    /\ pc' = [pc EXCEPT ![p] = "idle"]
    /\ UNCHANGED <<clock, ticks, accesses, last_update, mutex, data, writer,
                   locals, outcome, visited, myAttempt, waitedFor, seen, hist>>

\* the wall clock moves
Tick(ds) ==
    /\ ticks < MaxTicks
    /\ \E d \in ds : clock' = clock + d
    /\ ticks' = ticks + 1
    /\ UNCHANGED <<accesses, shared, pc, locals, ret, outcome, visited,
                   myAttempt, waitedFor, seen, hist>>

\* one step of caller p, the remote tree of a capture taken from ids
Step(p, ids) ==
    \/ Arrive(p)
    \/ DecidePanic(p)
    \/ DecideFresh(p)
    \/ DecideStale(p)
    \/ WLock(p)
    \/ ConnectOk(p, ids)
    \/ ConnectErr(p)
    \/ LoginOk(p)
    \/ LoginErr(p)
    \/ ListErr(p)
    \/ WalkDir(p)
    \/ WalkParseErr(p)
    \/ WalkPanic(p)
    \/ Finish(p)
    \/ RLock(p)
    \/ Clone(p)

(***************************************************************************)
(* Spec: the cache under concurrent callers and a moving clock, in front   *)
(* of remote trees that are a single directory.                            *)
(***************************************************************************)
CacheTrees == {"flat", "bad", "gap"}

Next ==
    \/ Tick(Deltas)
    \/ \E p \in Procs : Step(p, CacheTrees)

Spec == Init /\ [][Next]_vars

(***************************************************************************)
(* SpecWalk: the captures of one caller over every remote tree, the clock  *)
(* moving by half seconds.                                                 *)
(***************************************************************************)
NextWalk ==
    \/ Tick({0 - 1000, 500})
    \/ Step(1, TreeIds)

\* every handler is a task the runtime keeps polling; the number of
\* requests is bounded, so a caller at a lock is not overtaken for ever
SpecFair == Spec /\ \A p \in Procs : WF_vars(Step(p, CacheTrees))

SpecWalk == Init /\ [][NextWalk]_vars

\* the handler is a task the runtime keeps polling, and nothing in a
\* capture waits for another caller
SpecWalkFair == SpecWalk /\ WF_vars(Step(1, TreeIds))

(***************************************************************************)
(* Notions the properties share.                                           *)
(***************************************************************************)
\* the placeholder of rocket() (main.rs:96)
Placeholder == SnapshotNew(BootTime)

Attempts == DOMAIN hist

Succeeded(k) == hist[k].kind = "ok"

\* the Snapshot in the cache once capture k is over: the result of the
\* latest capture up to k that succeeded, the placeholder if there is none
StoredAfter(k) ==
    IF \E j \in 1 .. k : Succeeded(j)
    THEN hist[SetMax({j \in 1 .. k : Succeeded(j)})].snapshot
    ELSE Placeholder

Returned(p) == ret[p].status # "none"

\* caller p is at the point where snap decides; its next step decides
Decides(p) == pc[p] = "lock" /\ pc'[p] # "lock"

(***************************************************************************)
(* C1.  A stale access whose capture returns Err gets a response, not an   *)
(* error, and the response holds the Snapshot that was stored before the   *)
(* attempt: the result of the latest earlier capture that succeeded, or    *)
(* the placeholder.  The failed attempt leaves the stored Snapshot as it   *)
(* was.  (Stated for as long as no later capture has succeeded, which is   *)
(* every state of a sequence of accesses that do not overlap.)             *)
(***************************************************************************)
NoLaterSuccess(k) == \A j \in Attempts : j > k => ~Succeeded(j)

Capturing == {q \in Procs : pc[q] \in CapturePcs}

C2_SingleFlightState ==
    /\ Cardinality(Capturing) <= 1
    /\ \A q \in Capturing :
           /\ mutex = q
           /\ writer = q
           /\ \A p \in Procs \ {q} : pc[p] \in {"idle", "lock", "rlock"}

C2_WaitersWait ==
    \A p \in Procs :
        (pc[p] = "lock" /\ Capturing \ {p} # {}) => pc'[p] = "lock"

C2_SingleFlight == [](C2_SingleFlightState) /\ [][C2_WaitersWait]_vars

\* a caller arrived while a capture was running and is waiting for the mutex
C2_Witness ==
    \E p, q \in Procs :
        /\ p # q
        /\ pc[q] = "walk"
        /\ pc[p] = "lock"
        /\ waitedFor[p] = myAttempt[q]
        /\ waitedFor[p] > 0

(***************************************************************************)
(* C3.  An access that decides when 0 <= now - last_update <= TTL takes    *)
(* the cached path: it changes neither last_update nor the stored          *)
(* container, takes neither the mutex beyond the decision nor the write    *)
(* guard, starts no capture, and returns the stored container as it is at  *)
(* its read.  After an access at t0 that captured, an access at t0 + T/2   *)
(* returns that capture's Snapshot.                                        *)
(***************************************************************************)
C3_WithinTtl == clock >= last_update /\ clock - last_update <= TtlMillis

C3_FreshDecision ==
    \A p \in Procs :
        (Decides(p) /\ C3_WithinTtl) =>
            /\ pc'[p] = "rlock"
            /\ outcome'[p] = "fresh"
            /\ UNCHANGED <<last_update, data, mutex, writer, hist, myAttempt>>

C3_FreshReturn ==
    \A p \in Procs :
        (outcome[p] = "fresh" /\ pc[p] = "clone" /\ pc'[p] # "clone") =>
            /\ ret'[p] = Json(data)
            /\ data' = data

C3_FreshState ==
    \A p \in Procs :
        outcome[p] = "fresh" =>
            /\ pc[p] \in {"rlock", "clone", "idle"}
            /\ myAttempt[p] = 0
            /\ ret[p].status # "panicked"

C3_FreshServesCache ==
    /\ [](C3_FreshState)
    /\ [][C3_FreshDecision]_vars
    /\ [][C3_FreshReturn]_vars

\* the access at t0 captured, the access at t0 + T/2 returned its Snapshot
C3_Witness ==
    \E p \in Procs :
        /\ outcome[p] = "fresh"
        /\ ret[p].status = "ok"
        /\ Len(hist) = 1
        /\ Succeeded(1)
        /\ clock = hist[1].at + TtlMillis \div 2
        /\ ret[p].body.snapshot = hist[1].snapshot

(***************************************************************************)
(* C4.  As claimed: an access that decides when now - last_update exceeds  *)
(* the TTL, by however little, attempts a capture.                         *)
(***************************************************************************)
C4_Original_Step ==
    \A p \in Procs :
        (Decides(p) /\ clock - last_update > TtlMillis) => pc'[p] = "wlock"

C4_Original == [][C4_Original_Step]_vars

(***************************************************************************)
(* C4, amended.  An access that decides when the whole seconds of          *)
(* now - last_update exceed the TTL, that is when now - last_update is at  *)
(* least TTL + 1 s, attempts a capture and sets last_update to now.  An    *)
(* access that decides while last_update is still UNIX_EPOCH attempts a    *)
(* capture.                                                                *)
(***************************************************************************)
C4_Amended_Step ==
    \A p \in Procs :
        /\ (Decides(p) /\ clock - last_update >= TtlMillis + 1000) =>
               /\ pc'[p] = "wlock"
               /\ last_update' = clock
               /\ Len(hist') = Len(hist) + 1
        /\ (Decides(p) /\ last_update = UNIX_EPOCH) => pc'[p] = "wlock"

C4_Amended == [][C4_Amended_Step]_vars

\* a first access captured, and so did one TTL + 300.5 s after it
C4_Witness ==
    /\ Len(hist) = 2
    /\ hist[1].at = BootTime
    /\ hist[2].at - hist[1].at = TtlMillis + TtlMillis \div 2 + 500

(***************************************************************************)
(* C5.  While an access waits for the write guard or captures,             *)
(* last_update is already its access time; and any two capture attempts    *)
(* are more than a TTL apart, whether the earlier one succeeded or not.    *)
(***************************************************************************)
C5_RetriesThrottled ==
    /\ \A p \in Procs :
           pc[p] \in {"wlock"} \cup CapturePcs =>
               last_update = hist[myAttempt[p]].at
    /\ \A i, j \in Attempts :
           i < j => hist[j].at - hist[i].at > TtlMillis

\* a capture failed and the next attempt came more than a TTL later
C5_Witness ==
    /\ Len(hist) = 2
    /\ hist[1].kind = "err"
    /\ hist[2].kind # "pending"

(***************************************************************************)
(* C6.  As claimed: a call of snap never ends in a panic, whatever the     *)
(* clock read at the access, a reading earlier than last_update included.  *)
(* Stated for the calls that started no capture, so that the run that      *)
(* violates it shows the clock and not a capture that panicked on the      *)
(* modify time of a file.                                                  *)
(***************************************************************************)
C6_NeverFails ==
    \A p \in Procs : myAttempt[p] = 0 => ret[p].status # "panicked"

(***************************************************************************)
(* C7.  As claimed: an access that arrived while a capture was running,    *)
(* and that capture succeeded, returns the result of that capture; so all  *)
(* such accesses return the same Snapshot.                                 *)
(***************************************************************************)
C7_Original ==
    \A p \in Procs :
        (waitedFor[p] > 0 /\ ret[p].status = "ok"
             /\ Succeeded(waitedFor[p])) =>
            ret[p].body.snapshot = hist[waitedFor[p]].snapshot

(***************************************************************************)
(* C7, amended.  An access that arrived while capture k was running        *)
(* returns the Snapshot stored at its final read.  That is what capture k  *)
(* left in the cache (its result if it succeeded, else what was stored     *)
(* before it) unless a later capture has succeeded by then, and then it    *)
(* is the result of a later capture.  A later capture exists only when an  *)
(* access, possibly the waiting one, decided more than a TTL after the     *)
(* access time of capture k.                                               *)
(***************************************************************************)
LaterResults(k) ==
    {hist[j].snapshot : j \in {i \in Attempts : i > k /\ Succeeded(i)}}

C7_Amended ==
    \A p \in Procs :
        waitedFor[p] > 0 =>
            /\ ret[p].status = "ok" =>
                   ret[p].body.snapshot
                       \in {StoredAfter(waitedFor[p])}
                               \cup LaterResults(waitedFor[p])
            /\ (ret[p].status = "ok" /\ NoLaterSuccess(waitedFor[p])) =>
                   ret[p].body.snapshot = StoredAfter(waitedFor[p])
            /\ \A j \in Attempts :
                   j > waitedFor[p] =>
                       hist[j].at - hist[waitedFor[p]].at > TtlMillis

\* the access waited for a capture that succeeded and returned its result
C7_Witness ==
    \E p \in Procs :
        /\ waitedFor[p] > 0
        /\ Succeeded(waitedFor[p])
        /\ outcome[p] = "fresh"
        /\ ret[p].status = "ok"
        /\ ret[p].body.snapshot = hist[waitedFor[p]].snapshot
        /\ ret[p].body.snapshot.submissions # <<>>

(***************************************************************************)
(* C8.  The stored Snapshot, and the Snapshot of every response, is the    *)
(* placeholder or the Snapshot that a capture returned with Ok.  What a    *)
(* capture had built when it failed (at connect, login, a listing or a     *)
(* line of a listing) or panicked is never stored and never returned.      *)
(***************************************************************************)
Completed == {hist[j].snapshot : j \in {i \in Attempts : Succeeded(i)}}

Abandoned ==
    {hist[j].snapshot :
         j \in {i \in Attempts : hist[i].kind \in {"err", "panic"}}}

C8_OnlyCompleteSnapshots ==
    /\ data.snapshot \in {Placeholder} \cup Completed
    /\ data.snapshot \notin Abandoned
    /\ data.update_interval = TIMEOUT_CACHE_SECONDS
    /\ \A p \in Procs :
           ret[p].status = "ok" =>
               /\ ret[p].body.snapshot \in {Placeholder} \cup Completed
               /\ ret[p].body.snapshot \notin Abandoned

\* a capture failed at a line of a listing after it had collected a
\* Submission, and the access returned the placeholder
C8_Witness ==
    \E p \in Procs :
        /\ outcome[p] = "err"
        /\ visited[p] # {}
        /\ hist[myAttempt[p]].snapshot.submissions # <<>>
        /\ ret[p].status = "ok"
        /\ ret[p].body.snapshot = Placeholder

(***************************************************************************)
(* The remote trees as sets, for the claims about the walker.              *)
(***************************************************************************)
\* every record of every tree, with the directory whose listing holds it
Records ==
    UNION {UNION {{[dir |-> d, rec |-> Tree(id)[d][i]] :
                      i \in 1 .. Len(Tree(id)[d])} :
                  d \in DOMAIN Tree(id)} :
           id \in TreeIds}

\* name = n _ v .tar.gz with n and v not empty
IsArchiveName(name, n, v) ==
    /\ n # <<>>
    /\ v # <<>>
    /\ name = n \o <<"_">> \o v \o TarGz

MatchesPattern(name) ==
    \E i \in 1 .. Len(name) :
        IsArchiveName(name, SubSeq(name, 1, i - 1),
                      SubSeq(name, i + 1, Len(name) - Len(TarGz)))

\* every Snapshot a capture has built, stored or returned
Snapshots ==
    {data.snapshot} \cup {snap[p] : p \in Procs}
        \cup {hist[k].snapshot : k \in Attempts}
        \cup {ret[p].body.snapshot : p \in Procs}

Submissions ==
    UNION {{s.submissions[i] : i \in 1 .. Len(s.submissions)} : s \in Snapshots}

\* the paths on the work list of caller p
StackPaths(p) == {folder_stack[p][i].path : i \in 1 .. Len(folder_stack[p])}

(***************************************************************************)
(* C9.  Under every remote tree, every directory that the walker has       *)
(* listed is at depth 0, 1 or 2 from the root; every entry of the work     *)
(* list carries the depth of its path, which is at most 2; and listing a   *)
(* directory adds to the work list only when that directory is at a depth  *)
(* strictly less than 2.                                                   *)
(***************************************************************************)
C9_ListedDepths ==
    \A p \in Procs :
        /\ \A path \in visited[p] : PathDepth(path) \in 0 .. 2
        /\ \A i \in 1 .. Len(folder_stack[p]) :
               /\ folder_stack[p][i].depth = PathDepth(folder_stack[p][i].path)
               /\ folder_stack[p][i].depth \in 0 .. 2

C9_PushStep ==
    \A p \in Procs :
        (pc[p] = "walk" /\ pc'[p] = "walk" /\ folder_stack[p] # <<>>
             /\ folder_stack'[p] # folder_stack[p]
             /\ folder_stack'[p] # StackRest(folder_stack[p])) =>
            /\ StackTop(folder_stack[p]).depth < 2
            /\ \A path \in StackPaths(p)' \ StackPaths(p) :
                   PathDepth(path) = StackTop(folder_stack[p]).depth + 1

C9_DepthBound == [](C9_ListedDepths) /\ [][C9_PushStep]_vars

\* a capture has listed a directory at depth 2 that holds a directory, and
\* has come to its end
C9_Witness ==
    /\ PathDE \in visited[1]
    /\ PathDEF \in DOMAIN TreePlain
    /\ outcome[1] = "ok"

(***************************************************************************)
(* C10.  Every Submission of every Snapshot comes from a record of a       *)
(* listing that is a regular file named <name>_<version>.tar.gz, and       *)
(* carries that name, that version and the size of the file.  No           *)
(* directory, symlink or file of another name yields a Submission.  None   *)
(* of them ends the walk: listing a directory fails only on a line that    *)
(* does not parse or on a package file whose modify time is not a unique   *)
(* local time.  The path of a symlink is never on the work list and never  *)
(* listed.                                                                 *)
(***************************************************************************)
ComesFrom(s, r) ==
    /\ r.rec.size = s.file_bytes
    /\ r.rec.kind = "file"
    /\ IsArchiveName(r.rec.name, s.pkg_name, s.pkg_version)
    /\ CRAN_ROOT \o (IF s.folder = <<>> THEN <<>> ELSE <<"/">> \o s.folder)
           = r.dir

C10_FromPackageFiles ==
    \A s \in Submissions : \E r \in Records : ComesFrom(s, r)

C10_OthersYieldNothing ==
    \A r \in Records :
        (r.rec.kind # "file" \/ ~MatchesPattern(r.rec.name)) =>
            \A s \in Submissions : s.file_bytes # r.rec.size

AbortsListing(rec) ==
    \/ rec.kind = "bad"
    \/ /\ rec.kind = "file"
       /\ MatchesPattern(rec.name)
       /\ rec.modified \in {GapHour, FoldHour}

C10_OthersDoNotAbort ==
    \A p \in Procs :
        (pc[p] = "walk" /\ folder_stack[p] # <<>>) =>
            LET entries == Listing(tree[p], StackTop(folder_stack[p]).path)
            IN  WalkStep(p).status = "ok"
                    <=> \A i \in 1 .. Len(entries) : ~AbortsListing(entries[i])

C10_SymlinksNotFollowed ==
    \A r \in Records :
        r.rec.kind = "symlink" =>
            \A p \in Procs :
                JoinSlash(r.dir, r.rec.name)
                    \notin visited[p] \cup StackPaths(p)

C10_OnlyPackageFiles ==
    /\ C10_FromPackageFiles
    /\ C10_OthersYieldNothing
    /\ C10_OthersDoNotAbort
    /\ C10_SymlinksNotFollowed

\* a capture has gone through directories that hold a symlink, a
\* directory and files of other names, and has returned the three packages
C10_Witness ==
    /\ outcome[1] = "ok"
    /\ {PathD, PathDE, JoinSlash(CRAN_ROOT, NameP1)} \subseteq visited[1]
    /\ ret[1].status = "ok"
    /\ {s.file_bytes : s \in Submissions} = {3, 7, 12}

(***************************************************************************)
(* C11.  As claimed: the correction of a modify time never ends a          *)
(* capture; for a unique local time, a time in the gap and a time in the   *)
(* fold alike a timestamp comes out and the walk goes on.  So no listing   *)
(* step ends in a panic, and no capture has ended in one.                  *)
(***************************************************************************)
C11_NeverAborts ==
    /\ \A p \in Procs :
           (pc[p] = "walk" /\ folder_stack[p] # <<>>) =>
               WalkStep(p).status # "panic"
    /\ \A k \in Attempts : hist[k].kind # "panic"

(***************************************************************************)
(* C12.  As claimed: the write guard of the stored container is never      *)
(* held while a capture is in progress, so no caller that only has to      *)
(* read the stored container waits for a capture.                          *)
(***************************************************************************)
C12_WriteLockOnlyToReplace ==
    \A p \in Procs :
        pc[p] \in CapturePcs =>
            /\ writer # p
            /\ \A q \in Procs : pc[q] = "rlock" => ReadAvailable

\* a caller at its final read waits for the capture of another caller
C12_ReaderBlocked ==
    \E p, q \in Procs :
        /\ pc[p] = "walk"
        /\ writer = p
        /\ pc[q] = "rlock"

(***************************************************************************)
(* C13.  An access that began after the result of capture k had been       *)
(* stored returns the result of capture k or of a later capture that       *)
(* succeeded, not the placeholder and not the result of a capture before   *)
(* k (unless a later capture came to the very same Snapshot); and the      *)
(* stored Snapshot is at every moment the result of the last capture that  *)
(* succeeded.                                                              *)
(***************************************************************************)
ResultsFrom(k) ==
    {hist[j].snapshot : j \in {i \in Attempts : i >= k /\ Succeeded(i)}}

C13_RefreshVisible ==
    /\ LastStored > 0 => data.snapshot = hist[LastStored].snapshot
    /\ \A p \in Procs :
           (seen[p] > 0 /\ ret[p].status = "ok") =>
               /\ ret[p].body.snapshot \in ResultsFrom(seen[p])
               /\ ret[p].body.snapshot # Placeholder

\* a caller that arrived after the first capture was stored has made the
\* second capture and returned its result
C13_Witness ==
    \E p \in Procs :
        /\ seen[p] = 1
        /\ myAttempt[p] = 2
        /\ Succeeded(2)
        /\ ret[p].status = "ok"
        /\ ret[p].body.snapshot = hist[2].snapshot
        /\ hist[1].snapshot # hist[2].snapshot

(***************************************************************************)
(* C14.  For every path on the work list or listed, the start of the       *)
(* slice is at most the length of the path, and the folder is the path     *)
(* without the root and the separator after it: empty for the root, and    *)
(* root/folder = path otherwise.  Every path no longer than the root gives *)
(* the empty folder.  Every Submission carries the folder of the           *)
(* directory that holds its file, and no folder begins with a separator.   *)
(***************************************************************************)
\* the start of the slice of create_entry
SliceStart(path) == Min(Len(CRAN_ROOT) + 1, Len(path))

IsFolderOf(folder, path) ==
    IF Len(path) <= Len(CRAN_ROOT)
    THEN folder = <<>>
    ELSE /\ path = CRAN_ROOT \o <<"/">> \o folder
         /\ folder # <<>>
         /\ folder[1] # "/"

C14_FolderStripsRoot ==
    /\ \A p \in Procs :
           \A path \in visited[p] \cup StackPaths(p) :
               /\ SliceStart(path) <= Len(path)
               /\ IsFolderOf(FolderOf(path), path)
    /\ \A n \in 0 .. Len(CRAN_ROOT) :
           FolderOf(SubSeq(CRAN_ROOT, 1, n)) = <<>>
    /\ \A s \in Submissions :
           \E r \in Records :
               /\ r.rec.size = s.file_bytes
               /\ IsFolderOf(s.folder, r.dir)

\* a returned Snapshot holds a Submission of the root, with the empty
\* folder, and one of /incoming/d/e, with the folder d/e
C14_Witness ==
    /\ ret[1].status = "ok"
    /\ \E i, j \in 1 .. Len(ret[1].body.snapshot.submissions) :
           /\ ret[1].body.snapshot.submissions[i].folder = <<>>
           /\ ret[1].body.snapshot.submissions[i].file_bytes = 3
           /\ ret[1].body.snapshot.submissions[j].folder = <<"d", "/", "e">>
           /\ ret[1].body.snapshot.submissions[j].file_bytes = 12

(***************************************************************************)
(* C15.  As claimed: capture_duration of the stored Snapshot and of every  *)
(* returned Snapshot is greater than or equal to 0.                        *)
(***************************************************************************)
C15_DurationNonNegative ==
    /\ data.snapshot.capture_duration >= 0
    /\ \A p \in Procs :
           ret[p].status = "ok" => ret[p].body.snapshot.capture_duration >= 0

(***************************************************************************)
(* C16.  The walk of every tree ends.  Each iteration takes the last       *)
(* pair off the work list and lists its path; what it adds are pairs of    *)
(* depth at most 2, put after the pairs that were left.  The loop is left  *)
(* with Ok only when the work list is empty, and with an empty work list   *)
(* nothing else happens to the walk.                                       *)
(***************************************************************************)
IsPrefix(s, t) == Len(s) <= Len(t) /\ SubSeq(t, 1, Len(s)) = s

C16_Iteration ==
    \A p \in Procs :
        (pc[p] = "walk" /\ pc'[p] = "walk"
             /\ <<folder_stack[p], visited[p], snap[p]>>
                    # <<folder_stack'[p], visited'[p], snap'[p]>>) =>
            /\ folder_stack[p] # <<>>
            /\ IsPrefix(SubSeq(folder_stack[p], 1, Len(folder_stack[p]) - 1),
                        folder_stack'[p])
            /\ \A i \in 1 .. Len(folder_stack'[p]) :
                   folder_stack'[p][i].path # StackTop(folder_stack[p]).path
            /\ visited'[p] = visited[p] \cup {StackTop(folder_stack[p]).path}
            /\ \A i \in Len(folder_stack[p]) .. Len(folder_stack'[p]) :
                   folder_stack'[p][i].depth <= 2

C16_Exit ==
    \A p \in Procs :
        /\ (pc[p] = "walk" /\ outcome'[p] = "ok") => folder_stack[p] = <<>>
        /\ (pc[p] = "walk" /\ folder_stack[p] = <<>> /\ pc'[p] # "walk") =>
               outcome'[p] = "ok"

C16_WalkTerminates ==
    /\ [][C16_Iteration /\ C16_Exit]_vars
    /\ \A p \in Procs : (pc[p] = "walk") ~> (pc[p] # "walk")

\* the walk of the tree with directories down to depth 3 has listed the
\* four directories of depth 0 to 2 and has ended with Ok
C16_Witness ==
    /\ outcome[1] = "ok"
    /\ visited[1] = {CRAN_ROOT, PathD, PathDE, JoinSlash(CRAN_ROOT, NameP1)}
    /\ pc[1] = "idle"

(***************************************************************************)
(* C17.  A guard is held only inside the access that took it: the mutex    *)
(* from the decision to the end of the capture, the write guard during     *)
(* the capture, a read guard for the clone.  A caller whose access is      *)
(* over, whether it returned, its capture failed or it panicked, holds     *)
(* none.  Under fair scheduling every caller that waits for the mutex,     *)
(* the write guard or a read guard gets to the end of its access.          *)
(***************************************************************************)
C17_Held ==
    \A p \in Procs :
        /\ mutex = p => pc[p] \in {"wlock"} \cup CapturePcs
        /\ writer = p => pc[p] \in CapturePcs /\ mutex = p
        /\ p \in readers => pc[p] = "clone"
        /\ pc[p] \in {"idle", "lock", "rlock"} =>
               mutex # p /\ writer # p /\ p \notin readers

C17_Waiting(p) == pc[p] \in {"lock", "wlock", "rlock"}

C17_LocksReleased ==
    /\ [](C17_Held)
    /\ \A p \in Procs : C17_Waiting(p) ~> (pc[p] = "idle")

\* a capture has failed, its caller has returned, and afterwards another
\* caller has been through the mutex and the read lock and has returned
C17_Witness ==
    \E p, q \in Procs :
        /\ p # q
        /\ outcome[p] = "err" /\ ret[p].status = "ok" /\ pc[p] = "idle"
        /\ waitedFor[q] = myAttempt[p]
        /\ ret[q].status = "ok" /\ pc[q] = "idle"
        /\ mutex = NoProc /\ writer = NoProc /\ readers = {}

(***************************************************************************)
(* C18.  update_interval is the TTL in every state.  last_update changes   *)
(* only when an access finds the cache stale, and becomes the clock        *)
(* reading of that access.  The stored container changes only when a       *)
(* capture returns Ok, and then only its Snapshot changes, to the result   *)
(* of that capture.  So an access that finds the cache fresh changes       *)
(* neither, and the end of a failed capture changes nothing that is        *)
(* stored: of that access only the assignment to last_update remains.      *)
(***************************************************************************)
C18_Interval == data.update_interval = TIMEOUT_CACHE_SECONDS

C18_Frame ==
    /\ last_update' # last_update =>
           \E p \in Procs :
               /\ pc[p] = "lock" /\ pc'[p] = "wlock"
               /\ last_update' = clock
               /\ data' = data
    /\ data' # data =>
           \E p \in Procs :
               /\ pc[p] = "walk" /\ outcome'[p] = "ok"
               /\ data' = [data EXCEPT
                              !.snapshot = hist'[myAttempt[p]].snapshot]
               /\ last_update' = last_update
    /\ \A p \in Procs :
           /\ (Decides(p) /\ outcome'[p] = "fresh") =>
                  last_update' = last_update /\ data' = data
           /\ (pc[p] \in CapturePcs /\ outcome'[p] \in {"err", "panic"}) =>
                  /\ data' = data
                  /\ last_update' = last_update
                  /\ last_update = hist[myAttempt[p]].at
           /\ pc[p] \in {"rlock", "clone"} =>
                  (pc'[p] # pc[p] =>
                       last_update' = last_update /\ data' = data)

C18_FrameEffects == [](C18_Interval) /\ [][C18_Frame]_vars

\* a capture failed and left only last_update changed; a later capture
\* succeeded and its result is stored
C18_Witness ==
    \E j, k \in Attempts :
        /\ j < k
        /\ hist[j].kind = "err"
        /\ hist[k].kind = "ok"
        /\ data.snapshot = hist[k].snapshot
        /\ data.update_interval = TIMEOUT_CACHE_SECONDS
        /\ last_update = hist[k].at

(***************************************************************************)
(* What a complete capture of a tree lists and collects.                   *)
(***************************************************************************)
\* the directories below the paths of D, by records that are directories
SubDirs(id, D) ==
    UNION {{JoinSlash(d, Listing(id, d)[i].name) :
               i \in {j \in 1 .. Len(Listing(id, d)) :
                         Listing(id, d)[j].kind = "dir"}} :
           d \in D}

\* the directories of depth 0, 1 and 2
ExpectedDirs(id) ==
    {CRAN_ROOT} \cup SubDirs(id, {CRAN_ROOT})
        \cup SubDirs(id, SubDirs(id, {CRAN_ROOT}))

\* the sizes of the regular files with a matching name in those
ExpectedSizes(id) ==
    UNION {{Listing(id, d)[i].size :
               i \in {j \in 1 .. Len(Listing(id, d)) :
                         /\ Listing(id, d)[j].kind = "file"
                         /\ MatchesPattern(Listing(id, d)[j].name)}} :
           d \in ExpectedDirs(id)}

\* every line of every listing of the tree is parsed
ListingsSucceed(id) ==
    \A d \in ExpectedDirs(id) :
        \A i \in 1 .. Len(Listing(id, d)) : Listing(id, d)[i].kind # "bad"

\* subs holds one Submission for each expected file and nothing else
IsResultOf(subs, id) ==
    /\ {subs[i].file_bytes : i \in 1 .. Len(subs)} = ExpectedSizes(id)
    /\ \A i, j \in 1 .. Len(subs) :
           subs[i].file_bytes = subs[j].file_bytes => i = j

(***************************************************************************)
(* C19.  A capture that returns Ok has listed exactly the directories of   *)
(* depth at most 2 of its tree, whose listings all succeeded, and returns  *)
(* exactly one Submission for each regular file of a matching name in      *)
(* them, none missing and none twice.  No path is listed twice: the path   *)
(* that a walk step lists has not been listed and is nowhere else on the   *)
(* work list.                                                              *)
(***************************************************************************)
C19_Result ==
    \A p \in Procs :
        (pc[p] = "walk" /\ outcome'[p] = "ok") =>
            /\ ListingsSucceed(tree[p])
            /\ visited[p] = ExpectedDirs(tree[p])
            /\ IsResultOf(snap[p].submissions, tree[p])
            /\ data'.snapshot.submissions = snap[p].submissions

C19_ListedOnce ==
    \A p \in Procs :
        (pc[p] = "walk" /\ folder_stack[p] # <<>>
             /\ <<pc[p], folder_stack[p]>> # <<pc'[p], folder_stack'[p]>>) =>
            /\ StackTop(folder_stack[p]).path \notin visited[p]
            /\ \A i \in 1 .. Len(folder_stack[p]) - 1 :
                   folder_stack[p][i].path # StackTop(folder_stack[p]).path
            /\ StackTop(folder_stack[p]).path \in ExpectedDirs(tree[p])

C19_Stored ==
    \A p \in Procs :
        outcome[p] = "ok" =>
            \E id \in TreeIds :
                /\ visited[p] = ExpectedDirs(id)
                /\ IsResultOf(hist[myAttempt[p]].snapshot.submissions, id)

C19_ExactlyOnce ==
    [](C19_Stored) /\ [][C19_Result /\ C19_ListedOnce]_vars

\* the capture of the tree with four directories of depth at most 2 has
\* returned its three packages, one Submission each
C19_Witness ==
    /\ outcome[1] = "ok"
    /\ visited[1] = ExpectedDirs("plain")
    /\ Cardinality(ExpectedDirs("plain")) = 4
    /\ Len(hist[myAttempt[1]].snapshot.submissions) = 3
    /\ IsResultOf(hist[myAttempt[1]].snapshot.submissions, "plain")
    /\ data.snapshot = hist[myAttempt[1]].snapshot

(***************************************************************************)
(* C20.  For every regular file of a listing whose name is                 *)
(* <name>_<version>.tar.gz the pattern matches, and for no other name.     *)
(* The Submission of such a file has group 1 as pkg_name and group 2 as    *)
(* pkg_version: pkg_name _ pkg_version .tar.gz is the name of the file,    *)
(* neither is empty, and no other such split of the name has a longer      *)
(* pkg_name, which is the split at the last underscore that leaves a       *)
(* version.  Neither field is ever [unknown].                              *)
(***************************************************************************)
\* n and v split the name at the last underscore that leaves a version
IsLastSplit(name, n, v) ==
    /\ IsArchiveName(name, n, v)
    /\ \A i \in 1 .. Len(name) :
           IsArchiveName(name, SubSeq(name, 1, i - 1),
                         SubSeq(name, i + 1, Len(name) - Len(TarGz)))
               => i - 1 <= Len(n)

C20_Pattern ==
    \A r \in Records :
        /\ ReCaptures(r.rec.name).matched <=> MatchesPattern(r.rec.name)
        /\ ReCaptures(r.rec.name).matched =>
               /\ IsLastSplit(r.rec.name, ReCaptures(r.rec.name).g1,
                              ReCaptures(r.rec.name).g2)
               /\ GroupOrUnknown(ReCaptures(r.rec.name), 1) # Unknown
               /\ GroupOrUnknown(ReCaptures(r.rec.name), 2) # Unknown

C20_Fields ==
    \A s \in Submissions :
        /\ s.pkg_name # Unknown
        /\ s.pkg_version # Unknown
        /\ \E r \in Records :
               /\ r.rec.size = s.file_bytes
               /\ r.rec.kind = "file"
               /\ IsLastSplit(r.rec.name, s.pkg_name, s.pkg_version)
               /\ s.pkg_name = ReCaptures(r.rec.name).g1
               /\ s.pkg_version = ReCaptures(r.rec.name).g2

C20_GroupsAreNameAndVersion == C20_Pattern /\ C20_Fields

\* a returned Snapshot holds the Submissions of a_1_.tar.gz, a__1.tar.gz,
\* _a_1.tar.gz, ___.tar.gz and a_1.tar.gz.tar.gz, split as the pattern does
C20_Witness ==
    /\ ret[1].status = "ok"
    /\ LET subs == ret[1].body.snapshot.submissions
           pair(i) == <<subs[i].file_bytes, subs[i].pkg_name,
                        subs[i].pkg_version>>
       IN  {pair(i) : i \in 1 .. Len(subs)}
               = {<<60, <<"a">>, <<"1", "_">>>>,
                  <<61, <<"a", "_">>, <<"1">>>>,
                  <<62, <<"_", "a">>, <<"1">>>>,
                  <<63, <<"_">>, <<"_">>>>,
                  <<65, <<"a">>, <<"1">> \o TarGz>>}

=============================================================================
